---- MODULE Spec2Model ----
(***************************************************************************)
(* wfwrc: a wait-free reference counted pointer pair (Arc / Weak) over one *)
(* heap Block holding two atomic counters and a payload (src/src/lib.rs).  *)
(*                                                                         *)
(* One Block is modelled.  Every atomic access of the source is one step   *)
(* of the thread that performs it; code between two atomic accesses is     *)
(* thread local and is folded into the step of the preceding access.       *)
(* Handles are kept as counts: a Strong handle is live from the step that  *)
(* returns it until the step in which its drop begins, exactly as for      *)
(* Weak handles.  An operation taking &self borrows a live handle for its  *)
(* whole duration; several threads may borrow the same handle (Arc and     *)
(* Weak are Sync), so a drop is possible whenever one live handle of the   *)
(* kind is left for the borrowers.                                         *)
(***************************************************************************)
EXTENDS Integers, FiniteSets, Sequences, TLC

\* ---------------------------------------------------------------- bounds
NumThreads == 3
MaxArcs == 3
MaxWeaks == 3
MaxDangling == 2
MaxFailedUpgrades == 2
\* width of usize in bits (the model scales the machine word down)
UsizeBits == 12

\* ------------------------------------------------------ program constants
WEAK_EXIST == 1
CLOSED == 2
SINGLE_STRONG == 4
SINGLE_WEAK == 1
INVALID_WEAK_ADDR == 1

Modulus == 2 ^ UsizeBits
MAX_REFCOUNT == (2 ^ (UsizeBits - 1)) - 1

Threads == 1 .. NumThreads

\* addresses the allocator may hand out: null, or an address aligned for
\* ArcInner (two usize counters)
AllocAddrs == {0, 8}

\* usize arithmetic wraps
wrapping_add(x, y) == (x + y) % Modulus
wrapping_sub(x, y) == (x + Modulus - y) % Modulus

\* x & bit != 0 for a single-bit mask
HasFlag(x, bit) == (x \div bit) % 2 = 1

\* mutant: tests for null instead of the sentinel
is_dangling_null(p) == p = 0
is_dangling(p) == p = INVALID_WEAK_ADDR

\* mutant: the limit is the whole range of usize
Overflowed_late(old) == old > MAX_REFCOUNT + MAX_REFCOUNT + 1
\* the `old > MAX_REFCOUNT` test that guards every increment
Overflowed(old) == old > MAX_REFCOUNT

\* mutant: tests the wrong flag
IsClosed_wrong_bit(old) == HasFlag(old, WEAK_EXIST)
\* acquire_strong_from_weak: `old & CLOSED != 0`
IsClosed(old) == HasFlag(old, CLOSED)

\* mutant: the revival branch is never taken
NoStrong_never(old) == old < 0
\* acquire_strong_from_weak: `old < SINGLE_STRONG`, no strong unit was left
NoStrong(old) == old < SINGLE_STRONG

\* acquire_strong_from_weak: debug_assert_eq!(old, WEAK_EXIST)
DebugAssert(old) == old = WEAK_EXIST

\* mutant: tests CLOSED instead of WEAK_EXIST
NoWeak_wrong_bit(old) == ~HasFlag(old, CLOSED)
\* release_strong: `old & WEAK_EXIST == 0`
NoWeak(old) == ~HasFlag(old, WEAK_EXIST)

\* mutant: one strong unit too many counts as the last
NotLast_late(old) == old > SINGLE_STRONG + SINGLE_STRONG + WEAK_EXIST
\* release_strong: not the last strong unit
NotLast(old) == old > SINGLE_STRONG + WEAK_EXIST

\* mutants: the CAS expects the value before the decrement, or CLOSED
CasExpected_stale == WEAK_EXIST + SINGLE_STRONG
CasExpected_closed == CLOSED
\* mutants: the CAS stores WEAK_EXIST back, or stores no flag at all
CasNew_weak_exist == WEAK_EXIST
CasNew_no_flag == CLOSED - CLOSED
\* release_strong: the value the CAS expects and the one it stores
CasExpected == WEAK_EXIST
CasNew == CLOSED

\* mutants: frees one unit early, or never
LastWeak_early(old) == old <= SINGLE_WEAK + SINGLE_WEAK
LastWeak_never(old) == old = 0
\* release_weak: this was the last weak unit
LastWeak(old) == old = SINGLE_WEAK

VARIABLES
  ptr,        \* address of the Block, 0 before Arc::new
  strong,     \* ArcInner.strong
  weak,       \* ArcInner.weak
  drops,      \* number of drop_inner calls on the Block
  deallocs,   \* number of dealloc calls on the Block
  site,       \* the function that called dealloc
  arcs,       \* live Strong handles
  weaks,      \* live bound Weak handles
  danglings,  \* live dangling Weak handles
  pc,         \* per thread: position inside the operation in progress
  self,       \* per thread: the pointer held by the handle operated on
  old,        \* per thread: the local `old`
  casOk,      \* per thread: outcome of the compare_exchange of release_strong
  sawArcs,    \* per thread: Strong handles live at the upgrade's increment
  failed,     \* number of upgrades that returned None on the Block
  revived,    \* an upgrade took the Block from no strong unit back to one
  sets,       \* number of strong.fetch_add(WEAK_EXIST) executed on the Block
  uaf,        \* an atomic access hit freed memory or an invalid address
  aborted,    \* the process called abort()
  sync        \* happens-before bookkeeping of the final uses, see Use

vars == <<ptr, strong, weak, drops, deallocs, site, arcs, weaks, danglings,
          pc, self, old, casOk, sawArcs, failed, revived, sets, uaf, aborted,
          sync>>

NoVal == 0 - 1

\* threads inside an operation that borrows a Strong handle (&Arc)
StrongBorrowers == {t \in Threads : pc[t] \in {"dg_cas", "dg_set", "dg_weak"}}
\* threads inside an operation that borrows a bound Weak handle (&Weak)
WeakBorrowers ==
  {t \in Threads : pc[t] \in {"up_weak", "up_some", "up_none", "up_panic"}
                     /\ self[t] = ptr}
\* threads that own a strong unit not yet handed out as a handle
PendingArcs == {t \in Threads : pc[t] \in {"up_weak", "up_some"}}
PendingWeaks == {t \in Threads : pc[t] \in {"dg_set", "dg_weak"}}

Running == ~aborted /\ ~uaf

\* the memory an atomic access through p reaches is the live Block
Valid(p) == p # 0 /\ p = ptr /\ deallocs = 0

\* ------------------------------------------------------ memory orderings
\* the Ordering argument of each atomic access
Ord_acquire_strong_from_strong == "Relaxed"
Ord_acquire_strong_from_weak == "Acquire"
Ord_release_strong == "Release"
Ord_release_strong_cas == "AcqRel"
Ord_release_strong_cas_failure == "Relaxed"
Ord_acquire_weak_from_strong == "Relaxed"
Ord_acquire_weak_from_weak == "Relaxed"
Ord_release_weak == "Relaxed"

Acquires(o) == o \in {"Acquire", "AcqRel", "SeqCst"}
Releases(o) == o \in {"Release", "AcqRel", "SeqCst"}

\* sync follows one final use of a handle (the decrement that gives the
\* handle's unit back, or drop_inner) and who it happens-before:
\*   on        the bookkeeping is kept in this behaviour (SpecSync)
\*   user      the thread whose latest final use is followed, 0 for none yet
\*   kind      what that final use was
\*   hb        the threads whose present point it happens-before
\*   pend      the threads that have read, without acquire, from a release
\*             sequence that carries it: their next fence(Acquire)
\*             synchronizes with it
\*   relS/relW it happens-before a release operation of the release
\*             sequences ending in the present value of strong / weak (every
\*             write of a counter is a read-modify-write, so a release
\*             sequence never ends)
\*   unordered the calls (drop_inner, dealloc) made by another thread that
\*             the followed final use did not happen-before
\* Accesses other than a final use are ordered before the final use of the
\* handle they go through by program order or by the handle's transfer.
NoSync(on) ==
  [on |-> on, user |-> 0, kind |-> "none", hb |-> {}, pend |-> {},
   relS |-> FALSE, relW |-> FALSE, unordered |-> {}]

\* thread t makes a final use of kind k: a new final use of the followed
\* thread replaces the followed one, and while none is followed this one may
\* be taken; nothing is ordered after it yet
Use(s, t, k) ==
  LET taken == [s EXCEPT !.user = t, !.kind = k, !.hb = {t}, !.pend = {},
                         !.relS = FALSE, !.relW = FALSE]
  IN  IF ~s.on THEN {s}
      ELSE IF s.user = t THEN {taken}
      ELSE IF s.user = 0 THEN {s, taken}
      ELSE {s}

\* the read half of an atomic access with ordering o by t, reading from a
\* release sequence that carries the followed use (carried) or not
Read(s, t, carried, o) ==
  IF ~carried \/ t \in s.hb THEN s
  ELSE IF Acquires(o) THEN [s EXCEPT !.hb = @ \cup {t}, !.pend = @ \ {t}]
  ELSE [s EXCEPT !.pend = @ \cup {t}]

\* a release operation of t carries what happens-before it
Publish(s, t, o) == Releases(o) /\ t \in s.hb

\* a read-modify-write of strong / of weak with ordering o by t
RmwStrong(s, t, o) ==
  LET r == Read(s, t, s.relS, o) IN [r EXCEPT !.relS = @ \/ Publish(r, t, o)]
RmwWeak(s, t, o) ==
  LET r == Read(s, t, s.relW, o) IN [r EXCEPT !.relW = @ \/ Publish(r, t, o)]

\* fence(Ordering::Acquire) by t
Fence(s, t) ==
  IF t \in s.pend THEN [s EXCEPT !.hb = @ \cup {t}, !.pend = @ \ {t}] ELSE s

\* t calls drop_inner or dealloc: a final use of one of the given kinds by
\* another thread must happen-before the call
Observe(s, t, call, kinds) ==
  IF s.kind \in kinds /\ t \notin s.hb
  THEN [s EXCEPT !.unordered = @ \cup {call}]
  ELSE s
PayloadUses == {"strong"}
BlockUses == {"strong", "weak", "drop"}

Init ==
  /\ ptr = 0 /\ strong = 0 /\ weak = 0
  /\ drops = 0 /\ deallocs = 0 /\ site = "none"
  /\ arcs = 0 /\ weaks = 0 /\ danglings = 0
  /\ pc = [t \in Threads |-> "idle"]
  /\ self = [t \in Threads |-> 0]
  /\ old = [t \in Threads |-> NoVal]
  /\ casOk = [t \in Threads |-> "none"]
  /\ sawArcs = [t \in Threads |-> NoVal]
  /\ failed = 0 /\ revived = FALSE /\ sets = 0 /\ uaf = FALSE /\ aborted = FALSE
  /\ sync = NoSync(FALSE)

\* an operation of t returns
Return(t) ==
  /\ pc' = [pc EXCEPT ![t] = "idle"]
  /\ self' = [self EXCEPT ![t] = 0]
  /\ old' = [old EXCEPT ![t] = NoVal]
  /\ casOk' = [casOk EXCEPT ![t] = "none"]
  /\ sawArcs' = [sawArcs EXCEPT ![t] = NoVal]

Goto(t, l) ==
  /\ pc' = [pc EXCEPT ![t] = l]
  /\ UNCHANGED <<self, casOk, sawArcs>>

\* abort(): the process ends where it is
Abort(t) ==
  /\ aborted' = TRUE
  /\ UNCHANGED <<pc, self, old, casOk, sawArcs>>

\* an atomic access outside a live Block: undefined behaviour, the model
\* records it and follows the execution no further
Wild(t) ==
  /\ uaf' = TRUE
  /\ UNCHANGED <<ptr, strong, weak, drops, deallocs, site, arcs, weaks,
                 danglings, pc, self, old, casOk, sawArcs, failed, revived, sets, aborted,
                 sync>>

\* ------------------------------------------------------------- Arc::new
ArcNew(t) ==
  /\ Running /\ pc[t] = "idle" /\ ptr = 0
  /\ UNCHANGED sync
  /\ \E p \in AllocAddrs :
       IF p = 0
       THEN \* handle_alloc_error
            /\ Abort(t)
            /\ UNCHANGED <<ptr, strong, weak, arcs>>
       ELSE /\ ptr' = p
            /\ strong' = SINGLE_STRONG
            /\ weak' = 0
            /\ arcs' = 1
            /\ UNCHANGED <<pc, self, old, casOk, sawArcs, aborted>>
  /\ UNCHANGED <<drops, deallocs, site, weaks, danglings, failed, revived, sets, uaf>>

\* ------------------------------- Arc::clone / acquire_strong_from_strong
ArcClone(t) ==
  /\ Running /\ pc[t] = "idle"
  /\ arcs >= 1 /\ arcs + Cardinality(PendingArcs) < MaxArcs
  /\ IF ~Valid(ptr) THEN Wild(t) ELSE
       /\ strong' = wrapping_add(strong, SINGLE_STRONG)
       /\ sync' = RmwStrong(sync, t, Ord_acquire_strong_from_strong)
       /\ IF Overflowed(strong)
          THEN Abort(t) /\ UNCHANGED arcs
          ELSE arcs' = arcs + 1
               /\ UNCHANGED <<pc, self, old, casOk, sawArcs, aborted>>
       /\ UNCHANGED <<ptr, weak, drops, deallocs, site, weaks, danglings,
                      failed, revived, sets, uaf>>

\* ----------------------------------------- Arc::drop / release_strong
\* the handle's drop begins: the fetch_sub and the two tests on `old`
ReleaseStrong(t) ==
  /\ Running /\ pc[t] = "idle"
  /\ arcs >= 1 /\ (StrongBorrowers # {} => arcs >= 2)
  /\ IF ~Valid(ptr) THEN Wild(t) ELSE
       /\ arcs' = arcs - 1
       /\ strong' = wrapping_sub(strong, SINGLE_STRONG)
       /\ sync' \in {RmwStrong(u, t, Ord_release_strong) :
                       u \in Use(sync, t, "strong")}
       /\ IF NotLast(strong)
          THEN Return(t)
          ELSE /\ old' = [old EXCEPT ![t] = strong]
               /\ self' = [self EXCEPT ![t] = ptr]
               /\ pc' = [pc EXCEPT ![t] =
                           IF NoWeak(strong) THEN "rs_nw_drop"
                           ELSE "rs_cas"]
               /\ UNCHANGED <<casOk, sawArcs>>
       /\ UNCHANGED <<ptr, weak, drops, deallocs, site, weaks, danglings,
                      failed, revived, sets, uaf, aborted>>

\* no-weak path: fence, drop_inner
ReleaseStrongNoWeakDrop(t) ==
  /\ Running /\ pc[t] = "rs_nw_drop"
  /\ drops' = drops + 1
  /\ sync' \in Use(Observe(Fence(sync, t), t, "drop_inner", PayloadUses),
                  t, "drop")
  /\ Goto(t, "rs_nw_dealloc")
  /\ UNCHANGED <<ptr, strong, weak, deallocs, site, arcs, weaks, danglings,
                 old, failed, revived, sets, uaf, aborted>>

\* no-weak path: dealloc
ReleaseStrongNoWeakDealloc(t) ==
  /\ Running /\ pc[t] = "rs_nw_dealloc"
  /\ deallocs' = deallocs + 1
  /\ sync' = Observe(sync, t, "dealloc", BlockUses)
  /\ site' = "release_strong"
  /\ Return(t)
  /\ UNCHANGED <<ptr, strong, weak, drops, arcs, weaks, danglings, failed, revived, sets,
                 uaf, aborted>>

\* where release_strong goes on after its compare_exchange: drop_inner on
\* success, straight to release_weak on failure (the result is not retried)
AfterCas_retry(ok) == IF ok THEN "rs_drop" ELSE "rs_cas"
AfterCas(ok) == IF ok THEN "rs_drop" ELSE "rs_rw"

\* compare_exchange(WEAK_EXIST, CLOSED)
ReleaseStrongCas(t) ==
  /\ Running /\ pc[t] = "rs_cas"
  /\ IF ~Valid(self[t]) THEN Wild(t) ELSE
       /\ IF strong = CasExpected
          THEN /\ strong' = CasNew
               /\ casOk' = [casOk EXCEPT ![t] = "ok"]
               /\ pc' = [pc EXCEPT ![t] = AfterCas(TRUE)]
               /\ sync' = RmwStrong(sync, t, Ord_release_strong_cas)
          ELSE /\ strong' = strong
               /\ casOk' = [casOk EXCEPT ![t] = "fail"]
               /\ pc' = [pc EXCEPT ![t] = AfterCas(FALSE)]
               /\ sync' = Read(sync, t, sync.relS,
                             Ord_release_strong_cas_failure)
       /\ UNCHANGED <<ptr, weak, drops, deallocs, site, arcs, weaks,
                      danglings, self, old, sawArcs, failed, revived, sets, uaf, aborted>>

\* drop_inner after a successful CAS
ReleaseStrongDrop(t) ==
  /\ Running /\ pc[t] = "rs_drop"
  /\ drops' = drops + 1
  /\ sync' \in Use(Observe(sync, t, "drop_inner", PayloadUses), t, "drop")
  /\ Goto(t, "rs_rw")
  /\ UNCHANGED <<ptr, strong, weak, deallocs, site, arcs, weaks, danglings,
                 old, failed, revived, sets, uaf, aborted>>

\* ------------------------------------------------------- release_weak
\* the fetch_sub of release_weak(this) by thread t, this = p
release_weak(t, p) ==
  /\ weak' = wrapping_sub(weak, SINGLE_WEAK)
  /\ sync' \in {RmwWeak(u, t, Ord_release_weak) : u \in Use(sync, t, "weak")}
  /\ IF LastWeak(weak)
     THEN /\ pc' = [pc EXCEPT ![t] = "rw_dealloc"]
          /\ self' = [self EXCEPT ![t] = p]
          /\ UNCHANGED <<old, casOk, sawArcs>>
     ELSE Return(t)
  /\ UNCHANGED <<ptr, strong, drops, deallocs, site, failed, revived, sets, uaf, aborted>>

\* release_strong: Self::release_weak(this), the implicit unit
ReleaseStrongReleaseWeak(t) ==
  /\ Running /\ pc[t] = "rs_rw"
  /\ IF ~Valid(self[t]) THEN Wild(t) ELSE
       /\ release_weak(t, self[t])
       /\ UNCHANGED <<arcs, weaks, danglings>>

\* --------------------------- Arc::downgrade / acquire_weak_from_strong
\* self.weak.load() == 0
Downgrade(t) ==
  /\ Running /\ pc[t] = "idle"
  /\ arcs >= 1 /\ weaks + Cardinality(PendingWeaks) < MaxWeaks
  /\ IF ~Valid(ptr) THEN Wild(t) ELSE
       /\ pc' = [pc EXCEPT ![t] = IF weak = 0 THEN "dg_cas" ELSE "dg_weak"]
       /\ self' = [self EXCEPT ![t] = ptr]
       /\ sync' = Read(sync, t, sync.relW, Ord_acquire_weak_from_strong)
       /\ UNCHANGED <<ptr, strong, weak, drops, deallocs, site, arcs, weaks,
                      danglings, old, casOk, sawArcs, failed, revived, sets, uaf, aborted>>

\* compare_exchange(0, SINGLE_WEAK * 2)
DowngradeCas(t) ==
  /\ Running /\ pc[t] = "dg_cas"
  /\ IF ~Valid(self[t]) THEN Wild(t) ELSE
       /\ IF weak = 0
          THEN /\ weak' = SINGLE_WEAK * 2 /\ Goto(t, "dg_set")
               /\ sync' = RmwWeak(sync, t, Ord_acquire_weak_from_strong)
          ELSE /\ weak' = weak /\ Goto(t, "dg_weak")
               /\ sync' = Read(sync, t, sync.relW,
                             Ord_acquire_weak_from_strong)
       /\ UNCHANGED <<ptr, strong, drops, deallocs, site, arcs, weaks,
                      danglings, old, failed, revived, sets, uaf, aborted>>

\* strong.fetch_add(WEAK_EXIST), then Weak(this.0)
DowngradeSetWeakExist(t) ==
  /\ Running /\ pc[t] = "dg_set"
  /\ IF ~Valid(self[t]) THEN Wild(t) ELSE
       /\ strong' = wrapping_add(strong, WEAK_EXIST)
       /\ sync' = RmwStrong(sync, t, Ord_acquire_weak_from_strong)
       /\ sets' = sets + 1
       /\ weaks' = weaks + 1
       /\ Return(t)
       /\ UNCHANGED <<ptr, weak, drops, deallocs, site, arcs, danglings,
                      failed, revived, uaf, aborted>>

\* the fetch_add and overflow test of acquire_weak_from_weak through p
acquire_weak_from_weak(t, p) ==
  IF ~Valid(p) THEN Wild(t) ELSE
    /\ weak' = wrapping_add(weak, SINGLE_WEAK)
    /\ sync' = RmwWeak(sync, t, Ord_acquire_weak_from_weak)
    /\ IF Overflowed(weak)
       THEN Abort(t) /\ UNCHANGED weaks
       ELSE weaks' = weaks + 1 /\ Return(t) /\ UNCHANGED aborted
    /\ UNCHANGED <<ptr, strong, drops, deallocs, site, arcs, danglings,
                   failed, revived, sets, uaf>>

\* the other path: self.acquire_weak_from_weak(), then Weak(this.0)
DowngradeAcquireWeak(t) ==
  /\ Running /\ pc[t] = "dg_weak"
  /\ acquire_weak_from_weak(t, self[t])

\* ------------------------------------------------------------ Weak::new
WeakNew(t) ==
  /\ Running /\ pc[t] = "idle"
  /\ UNCHANGED sync
  /\ danglings < MaxDangling
  /\ danglings' = danglings + 1
  /\ UNCHANGED <<ptr, strong, weak, drops, deallocs, site, arcs, weaks, pc,
                 self, old, casOk, sawArcs, failed, revived, sets, uaf, aborted>>

\* the pointers held by the live Weak handles
WeakPtrs ==
  (IF danglings > 0 THEN {INVALID_WEAK_ADDR} ELSE {})
    \cup (IF weaks > 0 THEN {ptr} ELSE {})

\* threads inside an operation that borrows a dangling Weak handle
DanglingBorrowers ==
  {t \in Threads : pc[t] = "up_none" /\ self[t] = INVALID_WEAK_ADDR}

\* ---------------------------------------------------------- Weak::clone
WeakClone(t, p) ==
  /\ Running /\ pc[t] = "idle" /\ p \in WeakPtrs
  /\ IF p = INVALID_WEAK_ADDR
     THEN danglings < MaxDangling
     ELSE weaks + Cardinality(PendingWeaks) < MaxWeaks
  /\ IF ~is_dangling(p)
     THEN acquire_weak_from_weak(t, p)
     ELSE \* Self(self.0)
          /\ danglings' = danglings + 1
          /\ UNCHANGED <<ptr, strong, weak, drops, deallocs, site, arcs,
                         weaks, pc, self, old, casOk, sawArcs, failed, revived, sets, uaf,
                         aborted, sync>>

\* ----------------------------------------------------------- Weak::drop
WeakDrop(t, p) ==
  /\ Running /\ pc[t] = "idle" /\ p \in WeakPtrs
  /\ IF p = INVALID_WEAK_ADDR
     THEN DanglingBorrowers # {} => danglings >= 2
     ELSE WeakBorrowers # {} => weaks >= 2
  /\ IF ~is_dangling(p)
     THEN IF ~Valid(p) THEN Wild(t) ELSE
          /\ release_weak(t, p)
          /\ weaks' = weaks - 1
          /\ UNCHANGED <<arcs, danglings>>
     ELSE /\ danglings' = danglings - 1
          /\ UNCHANGED <<ptr, strong, weak, drops, deallocs, site, arcs,
                         weaks, pc, self, old, casOk, sawArcs, failed, revived, sets, uaf,
                         aborted, sync>>

\* ------------------------------ Weak::upgrade / acquire_strong_from_weak
\* is_dangling, the fetch_add on strong and the tests on `old`
WeakUpgrade(t, p) ==
  /\ Running /\ pc[t] = "idle" /\ p \in WeakPtrs
  /\ p # INVALID_WEAK_ADDR =>
       /\ arcs + Cardinality(PendingArcs) < MaxArcs
       /\ failed < MaxFailedUpgrades
  /\ IF is_dangling(p)
     THEN /\ pc' = [pc EXCEPT ![t] = "up_none"]
          /\ self' = [self EXCEPT ![t] = p]
          /\ UNCHANGED <<ptr, strong, weak, drops, deallocs, site, arcs,
                         weaks, danglings, old, casOk, sawArcs, failed, revived, sets, uaf,
                         aborted, sync>>
     ELSE IF ~Valid(p) THEN Wild(t) ELSE
          /\ strong' = wrapping_add(strong, SINGLE_STRONG)
          /\ sync' = RmwStrong(sync, t, Ord_acquire_strong_from_weak)
          /\ IF Overflowed(strong)
             THEN Abort(t) /\ UNCHANGED <<failed, revived>>
             ELSE /\ old' = [old EXCEPT ![t] = strong]
                  /\ sawArcs' = [sawArcs EXCEPT ![t] = arcs]
                  /\ self' = [self EXCEPT ![t] = p]
                  /\ \E l \in (IF IsClosed(strong) THEN {"up_none"}
                              ELSE IF ~NoStrong(strong) THEN {"up_some"}
                              ELSE IF DebugAssert(strong) THEN {"up_weak"}
                              \* the assertion fails: a debug build panics,
                              \* a release build has no assertion
                              ELSE {"up_panic", "up_weak"}) :
                       pc' = [pc EXCEPT ![t] = l]
                  /\ failed' = IF IsClosed(strong) THEN failed + 1 ELSE failed
                  /\ revived' = (revived \/ (~IsClosed(strong) /\ NoStrong(strong)))
                  /\ UNCHANGED <<casOk, aborted>>
          /\ UNCHANGED <<ptr, weak, drops, deallocs, site, arcs, weaks,
                         danglings, sets, uaf>>

\* reviving upgrade: weak.fetch_add(SINGLE_WEAK)
UpgradeAcquireWeak(t) ==
  /\ Running /\ pc[t] = "up_weak"
  /\ IF ~Valid(self[t]) THEN Wild(t) ELSE
       /\ weak' = wrapping_add(weak, SINGLE_WEAK)
       /\ sync' = RmwWeak(sync, t, Ord_acquire_weak_from_weak)
       /\ IF Overflowed(weak)
          THEN Abort(t)
          ELSE Goto(t, "up_some") /\ UNCHANGED <<old, aborted>>
       /\ UNCHANGED <<ptr, strong, drops, deallocs, site, arcs, weaks,
                      danglings, failed, revived, sets, uaf>>

\* Some(Arc(self.0))
UpgradeSome(t) ==
  /\ Running /\ pc[t] = "up_some"
  /\ UNCHANGED sync
  /\ arcs' = arcs + 1
  /\ Return(t)
  /\ UNCHANGED <<ptr, strong, weak, drops, deallocs, site, weaks, danglings,
                 failed, revived, sets, uaf, aborted>>

\* None
UpgradeNone(t) ==
  /\ Running /\ pc[t] = "up_none"
  /\ UNCHANGED sync
  /\ Return(t)
  /\ UNCHANGED <<ptr, strong, weak, drops, deallocs, site, arcs, weaks,
                 danglings, failed, revived, sets, uaf, aborted>>

\* release_weak: fence, dealloc
ReleaseWeakDealloc(t) ==
  /\ Running /\ pc[t] = "rw_dealloc"
  /\ deallocs' = deallocs + 1
  /\ sync' = Observe(Fence(sync, t), t, "dealloc", BlockUses)
  /\ site' = "release_weak"
  /\ Return(t)
  /\ UNCHANGED <<ptr, strong, weak, drops, arcs, weaks, danglings, failed, revived, sets,
                 uaf, aborted>>

Next ==
  \E t \in Threads :
    \/ ArcNew(t)
    \/ ArcClone(t)
    \/ ReleaseStrong(t)
    \/ ReleaseStrongNoWeakDrop(t)
    \/ ReleaseStrongNoWeakDealloc(t)
    \/ ReleaseStrongCas(t)
    \/ ReleaseStrongDrop(t)
    \/ ReleaseStrongReleaseWeak(t)
    \/ ReleaseWeakDealloc(t)
    \/ Downgrade(t)
    \/ DowngradeCas(t)
    \/ DowngradeSetWeakExist(t)
    \/ DowngradeAcquireWeak(t)
    \/ WeakNew(t)
    \/ \E p \in WeakPtrs : WeakClone(t, p)
    \/ \E p \in WeakPtrs : WeakDrop(t, p)
    \/ \E p \in WeakPtrs : WeakUpgrade(t, p)
    \/ UpgradeAcquireWeak(t)
    \/ UpgradeSome(t)
    \/ UpgradeNone(t)

Spec == Init /\ [][Next]_vars

\* the same program with the happens-before bookkeeping switched on
InitSync ==
  /\ ptr = 0 /\ strong = 0 /\ weak = 0
  /\ drops = 0 /\ deallocs = 0 /\ site = "none"
  /\ arcs = 0 /\ weaks = 0 /\ danglings = 0
  /\ pc = [t \in Threads |-> "idle"]
  /\ self = [t \in Threads |-> 0]
  /\ old = [t \in Threads |-> NoVal]
  /\ casOk = [t \in Threads |-> "none"]
  /\ sawArcs = [t \in Threads |-> NoVal]
  /\ failed = 0 /\ revived = FALSE /\ sets = 0 /\ uaf = FALSE /\ aborted = FALSE
  /\ sync = NoSync(TRUE)

SpecSync == InitSync /\ [][Next]_vars

\* the steps of an operation of t after its first atomic access
Step(t) ==
  \/ ReleaseStrongNoWeakDrop(t)
  \/ ReleaseStrongNoWeakDealloc(t)
  \/ ReleaseStrongCas(t)
  \/ ReleaseStrongDrop(t)
  \/ ReleaseStrongReleaseWeak(t)
  \/ ReleaseWeakDealloc(t)
  \/ DowngradeCas(t)
  \/ DowngradeSetWeakExist(t)
  \/ DowngradeAcquireWeak(t)
  \/ UpgradeAcquireWeak(t)
  \/ UpgradeSome(t)
  \/ UpgradeNone(t)

\* fair scheduling: a thread inside an operation is eventually run
SpecFair == Init /\ [][Next]_vars /\ \A t \in Threads : WF_vars(Step(t))

\* -------------------------------------------------- counters near the limit
\* mem::forget of a handle keeps its unit in the counter for ever, so a
\* program can bring either counter to any height while it holds few handles;
\* failed upgrades raise the strong counter of a closed Block the same way.
\* These are states with one Strong and one Weak handle (or, closed, one Weak
\* handle) and forgotten units up to the limit.
NearLimit == {MAX_REFCOUNT - SINGLE_STRONG, MAX_REFCOUNT}
HighStrong == {wrapping_sub(m, m % SINGLE_STRONG) : m \in NearLimit}
HighWeak == {2, MAX_REFCOUNT - 1, MAX_REFCOUNT}

InitOverflow ==
  \/ Init
  \/ /\ ptr = 8 /\ deallocs = 0 /\ site = "none" /\ danglings = 0
     /\ weaks = 1 /\ weak \in HighWeak
     /\ \/ /\ arcs = 1 /\ drops = 0
           /\ strong \in {h + WEAK_EXIST : h \in HighStrong}
        \/ /\ arcs = 0 /\ drops = 1
           /\ strong \in {h + CLOSED : h \in HighStrong}
     /\ pc = [t \in Threads |-> "idle"]
     /\ self = [t \in Threads |-> 0]
     /\ old = [t \in Threads |-> NoVal]
     /\ casOk = [t \in Threads |-> "none"]
     /\ sawArcs = [t \in Threads |-> NoVal]
     /\ failed = 0 /\ revived = FALSE /\ sets = 1 /\ uaf = FALSE /\ aborted = FALSE
     /\ sync = NoSync(FALSE)

SpecOverflow == InitOverflow /\ [][Next]_vars
\* =================================================================== claims
Quiescent == \A t \in Threads : pc[t] = "idle"
Created == ptr # 0
Alive == Created /\ deallocs = 0 /\ strong >= SINGLE_STRONG /\ ~HasFlag(strong, CLOSED)

\* C1: the payload destructor runs at most once, and no Strong handle is
\* live (nor about to be returned by an upgrade) once it has run.
C1_DropOnceAfterLastStrong ==
  /\ drops <= 1
  /\ drops >= 1 => arcs = 0 /\ PendingArcs = {}
\* the destructor ran while an upgrade that raced with the last drop fails
C1_Witness ==
  /\ drops = 1 /\ weaks >= 1
  /\ \E t \in Threads : pc[t] = "up_none" /\ self[t] = ptr

\* C2: with no operation in progress and no Strong handle live, the payload
\* has been destroyed, also while bound Weak handles are outstanding.
C2_PayloadDestroyedWhenNoStrong ==
  (Created /\ Quiescent /\ arcs = 0 /\ ~aborted /\ ~uaf) => drops = 1
\* the last Strong handle is gone after a revival, a Weak handle is left
C2_Witness ==
  /\ Created /\ Quiescent /\ arcs = 0 /\ weaks >= 1 /\ revived
  /\ drops = 1 /\ deallocs = 0

\* C3: the Block is deallocated at most once, by one of the two sites, and
\* then the payload has been destroyed and no Strong handle, no bound Weak
\* handle and no half-made handle of the Block exists.
C3_DeallocOnceAfterAll ==
  /\ deallocs <= 1
  /\ deallocs = 0 <=> site = "none"
  /\ deallocs >= 1 =>
       /\ site \in {"release_strong", "release_weak"}
       /\ drops = 1
       /\ arcs = 0 /\ weaks = 0
       /\ PendingArcs = {} /\ PendingWeaks = {}
\* the last-unit path of release_weak freed the Block
C3_Witness == deallocs = 1 /\ site = "release_weak" /\ drops = 1

\* C4: once every Strong and every bound Weak handle is dropped and every
\* operation has completed, the Block has been deallocated.
C4_BlockFreedWhenNoHandle ==
  (Created /\ Quiescent /\ arcs = 0 /\ weaks = 0 /\ ~aborted /\ ~uaf)
    => deallocs = 1
\* all handles are gone after a revival by upgrade and a failed upgrade
C4_Witness ==
  /\ Created /\ Quiescent /\ arcs = 0 /\ weaks = 0
  /\ revived /\ failed >= 1 /\ deallocs = 1

\* C5: an upgrade of a bound Weak handle returns None only if CLOSED was set
\* before its increment, and then no Strong handle was live at the increment.
C5_UpgradeFailsOnlyClosed ==
  \A t \in Threads :
    (pc[t] = "up_none" /\ self[t] # INVALID_WEAK_ADDR) =>
      /\ HasFlag(old[t], CLOSED)
      /\ HasFlag(strong, CLOSED)
      /\ sawArcs[t] = 0
\* a bound upgrade is about to return None
C5_Witness ==
  \E t \in Threads : pc[t] = "up_none" /\ self[t] = ptr /\ old[t] # NoVal

\* C6: CLOSED is a one-way latch: once set no step clears it, and every
\* upgrade whose increment finds it set returns None.
C6_Original ==
  [][HasFlag(strong, CLOSED) =>
       /\ HasFlag(strong', CLOSED)
       /\ strong' = wrapping_add(strong, SINGLE_STRONG)
            => \E t \in Threads : pc[t] = "idle" /\ pc'[t] = "up_none"]_vars

\* C7: on a dangling Weak handle upgrade returns None, clone returns a
\* dangling Weak and drop does nothing; none touches a counter, allocates or
\* deallocates.
C7_DanglingFrame ==
  [][\A t \in Threads :
       /\ WeakUpgrade(t, INVALID_WEAK_ADDR) =>
            /\ pc'[t] = "up_none"
            /\ UNCHANGED <<ptr, strong, weak, drops, deallocs, arcs, weaks,
                           danglings, uaf, aborted>>
       /\ (pc[t] = "up_none" /\ self[t] = INVALID_WEAK_ADDR /\ UpgradeNone(t)) =>
            UNCHANGED <<ptr, strong, weak, drops, deallocs, arcs, weaks,
                        danglings, uaf, aborted>>
       /\ WeakClone(t, INVALID_WEAK_ADDR) =>
            /\ danglings' = danglings + 1
            /\ UNCHANGED <<ptr, strong, weak, drops, deallocs, arcs, weaks,
                           uaf, aborted>>
       /\ WeakDrop(t, INVALID_WEAK_ADDR) =>
            /\ danglings' = danglings - 1
            /\ UNCHANGED <<ptr, strong, weak, drops, deallocs, arcs, weaks,
                           uaf, aborted>>]_vars
\* a dangling upgrade is returning None while the Block has live handles
\* and a clone of the dangling handle exists
C7_Witness ==
  /\ Created /\ arcs >= 1 /\ weaks >= 1 /\ danglings = 2
  /\ \E t \in Threads : pc[t] = "up_none" /\ self[t] = INVALID_WEAK_ADDR

\* C8: an increment of either counter that finds it above MAX_REFCOUNT
\* aborts the process, which returns no handle and takes no further step.
C8_OverflowAborts ==
  [][/\ ~aborted
     /\ (strong' = wrapping_add(strong, SINGLE_STRONG) /\ strong > MAX_REFCOUNT)
          => (aborted' /\ UNCHANGED <<arcs, weaks, pc>>)
     /\ (weak' = wrapping_add(weak, SINGLE_WEAK) /\ weak > MAX_REFCOUNT)
          => (aborted' /\ UNCHANGED <<arcs, weaks, pc>>)]_vars
\* the process aborted on a counter above the limit
C8_Witness ==
  /\ aborted /\ Created
  /\ (strong > MAX_REFCOUNT + SINGLE_STRONG \/ weak > MAX_REFCOUNT + SINGLE_WEAK)

\* C9 as stated: once the strong count field has reached zero it never
\* becomes positive again.
C9_Original ==
  [][(Created /\ strong \div SINGLE_STRONG = 0)
       => strong' \div SINGLE_STRONG = 0]_vars

\* phases of the Block: 0 Alive (no destruction committed), 1 Closing
\* (destruction committed: CLOSED set, or the no-weak path taken), 2 Freed
Phase ==
  IF deallocs > 0 THEN 2
  ELSE IF Created /\ (HasFlag(strong, CLOSED) \/ strong = 0) THEN 1
  ELSE 0

\* C9 amended: the phases are monotonic and the payload is destroyed in the
\* Closing phase only; the count field may return from zero while Alive.
C9_PhasesMonotonic ==
  [][/\ Phase' >= Phase
     /\ drops' # drops => (Phase = 1 /\ Phase' = 1)]_vars
\* the Block was revived from a zero count, later closed and freed
C9_Witness == revived /\ Phase = 2 /\ drops = 1

\* C10 as stated: when the CAS of release_strong fails the Block is Alive
\* and the payload has not been destroyed.
C10_Original ==
  [][\A t \in Threads :
       (pc[t] = "rs_cas" /\ pc'[t] = "rs_rw") =>
         /\ strong >= SINGLE_STRONG /\ ~HasFlag(strong, CLOSED)
         /\ drops = 0]_vars

\* C10 amended: when the CAS fails an upgrade has revived the Block, the
\* failing thread does not destroy the payload, and the Block is either
\* Alive with the payload intact or closed by another release_strong.
C10_CasFailsAfterRevival ==
  [][\A t \in Threads :
       (pc[t] = "rs_cas" /\ pc'[t] # "rs_cas") =>
         /\ casOk'[t] = "fail" =>
              /\ revived
              /\ pc'[t] = "rs_rw" /\ drops' = drops
              /\ \/ strong >= SINGLE_STRONG /\ ~HasFlag(strong, CLOSED)
                    /\ drops = 0
                 \/ HasFlag(strong, CLOSED)
         /\ casOk'[t] = "ok" => (strong = WEAK_EXIST /\ drops = 0)]_vars
\* a CAS failed because another thread had closed the revived Block
C10_Witness ==
  \E t \in Threads :
    pc[t] = "rs_rw" /\ casOk[t] = "fail" /\ HasFlag(strong, CLOSED)
\* positions from which the next step of the thread is an atomic access
AccessPending == {"rs_cas", "rs_rw", "dg_cas", "dg_set", "dg_weak", "up_weak"}

\* C11: fetch_add(WEAK_EXIST) is executed at most once and finds the bit
\* unset (no carry into CLOSED); the weak counter does not return to 0 while
\* a Strong handle is live; the bit is cleared only by the successful CAS
\* WEAK_EXIST -> CLOSED, when no strong unit is left.
C11_WeakExistOnce ==
  [][/\ sets' <= 1
     /\ sets' # sets =>
          /\ ~HasFlag(strong, WEAK_EXIST) /\ ~HasFlag(strong, CLOSED)
          /\ strong' = strong + WEAK_EXIST
     /\ (weak # 0 /\ weak' = 0) => (arcs' = 0 /\ PendingArcs = {})
     /\ (HasFlag(strong, WEAK_EXIST) /\ ~HasFlag(strong', WEAK_EXIST)) =>
          /\ \E t \in Threads : pc[t] = "rs_cas" /\ casOk'[t] = "ok"
          /\ strong = WEAK_EXIST /\ strong' = CLOSED
          /\ arcs = 0 /\ PendingArcs = {}]_vars
\* the bit was set once, survived a revival and was cleared by the CAS
C11_Witness ==
  sets = 1 /\ revived /\ HasFlag(strong, CLOSED) /\ ~HasFlag(strong, WEAK_EXIST)

\* C12: with no operation in progress and the Block not freed, the weak
\* counter is the number of live bound Weak handles, plus one iff WEAK_EXIST
\* is set, which is so iff a downgrade has happened and a Strong handle lives.
C12_WeakCountsHandles ==
  (Created /\ Quiescent /\ deallocs = 0 /\ ~aborted /\ ~uaf) =>
    /\ weak = weaks + (IF HasFlag(strong, WEAK_EXIST) THEN 1 ELSE 0)
    /\ HasFlag(strong, WEAK_EXIST) <=> (sets >= 1 /\ arcs >= 1)
\* a revived Block at rest with Strong handles and two Weak handles
C12_Witness ==
  /\ Created /\ Quiescent /\ deallocs = 0 /\ revived
  /\ arcs >= 1 /\ weaks = 2 /\ weak = 3

\* C13: the debug assertion of acquire_strong_from_weak never fails: an
\* upgrade that finds no strong unit and CLOSED unset finds exactly WEAK_EXIST.
C13_DebugAssertHolds ==
  \A t \in Threads :
    /\ pc[t] # "up_panic"
    /\ pc[t] = "up_weak" => old[t] = WEAK_EXIST
\* an upgrade passed the assertion while the last dropper is before its CAS
C13_Witness ==
  \E t, u \in Threads :
    pc[t] = "up_weak" /\ old[t] = WEAK_EXIST /\ pc[u] = "rs_cas"

\* C14: when release_strong is on its no-weak path nothing else refers to
\* the Block: no Strong handle, no bound Weak handle, no downgrade or other
\* operation in progress on it, and the weak counter is 0.
C14_NoWeakPathAlone ==
  \A t \in Threads :
    pc[t] \in {"rs_nw_drop", "rs_nw_dealloc"} =>
      /\ old[t] = SINGLE_STRONG
      /\ arcs = 0 /\ weaks = 0 /\ weak = 0 /\ sets = 0
      /\ StrongBorrowers = {} /\ PendingArcs = {} /\ PendingWeaks = {}
      /\ \A u \in Threads \ {t} : pc[u] = "idle" \/ self[u] = INVALID_WEAK_ADDR
\* the last Strong handle is on the no-weak path, payload destroyed, before dealloc
C14_Witness ==
  \E t \in Threads : pc[t] = "rs_nw_dealloc" /\ drops = 1 /\ deallocs = 0

\* C16: while CLOSED is unset and the Block is not freed, the count field of
\* strong is the number of strong units held (live handles and handles an
\* upgrade is about to return); a live Strong handle implies a count of at
\* least one with CLOSED unset, which is what Arc::clone observes.
C16_StrongCountsHandles ==
  /\ (Created /\ deallocs = 0 /\ ~HasFlag(strong, CLOSED)) =>
       strong \div SINGLE_STRONG = arcs + Cardinality(PendingArcs)
  /\ arcs >= 1 =>
       /\ deallocs = 0 /\ ~HasFlag(strong, CLOSED)
       /\ strong \div SINGLE_STRONG >= 1
\* handles from new/clone and from an upgrade in flight, a drop in progress
C16_Witness ==
  /\ arcs = 2 /\ PendingArcs # {} /\ strong \div SINGLE_STRONG = 3
  /\ \E t \in Threads : pc[t] = "rs_cas"

\* C17: no atomic access reaches a deallocated Block: none has happened, and
\* every thread about to access, and every live handle, has the Block live.
C17_NoAccessAfterFree ==
  /\ ~uaf
  /\ \A t \in Threads : pc[t] \in AccessPending => Valid(self[t])
  /\ (arcs >= 1 \/ weaks >= 1) => deallocs = 0
\* a dropper whose CAS failed is about to release the implicit unit while
\* the reviving upgrade has not yet added its weak unit
C17_Witness ==
  \E t, u \in Threads :
    pc[t] = "rs_rw" /\ casOk[t] = "fail" /\ pc[u] = "up_weak" /\ weak = 2

\* C15: once CLOSED is set the strong counter only ever rises, by one strong
\* unit per failed upgrade, and the outcome of an upgrade does not depend on
\* the count field: every upgrade on the closed Block returns None.
C15_Original ==
  [][HasFlag(strong, CLOSED) =>
       /\ strong' \in {strong, wrapping_add(strong, SINGLE_STRONG)}
       /\ strong' # strong =>
            /\ ~aborted'
            /\ \E t \in Threads : pc[t] = "idle" /\ pc'[t] = "up_none"]_vars

\* position of a program point inside its operation: every step of an
\* operation moves to a later point or returns
Rank(l) ==
  CASE l = "idle" -> 0
    [] l \in {"rs_nw_drop", "rs_cas", "dg_cas", "up_weak", "up_none"} -> 1
    [] l \in {"rs_nw_dealloc", "rs_drop", "dg_set", "dg_weak", "up_some"} -> 2
    [] l = "rs_rw" -> 3
    [] l = "rw_dealloc" -> 4
    [] OTHER -> 5

\* C18: every step a thread takes inside an operation moves it to a later
\* program point or returns (so each compare-and-swap site is passed at most
\* once, none is retried); a thread inside an operation always has a step it
\* can take whatever the other threads do; and under fair scheduling every
\* started operation returns or the process has aborted: no thread stays
\* inside an operation forever.
C18_WaitFree ==
  /\ [][\A t \in Threads :
          pc'[t] # pc[t] \/ casOk'[t] # casOk[t]
            => (pc'[t] = "idle" \/ Rank(pc'[t]) > Rank(pc[t]))]_vars
  /\ [](\A t \in Threads : (pc[t] # "idle" /\ Running) => ENABLED Step(t))
  /\ \A t \in Threads : []<>(pc[t] = "idle" \/ aborted)
\* a thread's compare-and-swap on strong has failed and it goes on to
\* release_weak while another thread is inside an upgrade
C18_Witness ==
  \E t, u \in Threads :
    pc[t] = "rs_rw" /\ casOk[t] = "fail" /\ pc[u] \in {"up_weak", "up_some"}

\* C19: every final use of the payload by another thread happens-before the
\* call of drop_inner, and every final use of the Block by another thread
\* (the last decrement through each handle, and drop_inner) happens-before
\* the call of dealloc.
C19_Original == sync.unordered = {}
====
